---- MODULE Spec2Model ----
(***************************************************************************)
(* Model of client/h2ogpt_client/core.py: the Client around the gradio     *)
(* transport handle, and TextCompletion.create / create_async, which turn  *)
(* keyword parameters into one positional argument list submitted to the   *)
(* endpoint "/submit_nochat".                                              *)
(*                                                                         *)
(* Python values.  str, bool and int are TLA+ strings, booleans and        *)
(* integers.  A float is the integer number of its hundredths (1.07 is     *)
(* 107, 0.5 is 50, 1.0 is 100).  An object handed in where an enumeration  *)
(* member is expected is a record [cls, name]: a member of an Enum class   *)
(* (cls the class, name the member name) or a plain str (cls = "str", name *)
(* its text).  A list lives on the heap; its identity is its heap index.   *)
(***************************************************************************)
EXTENDS Integers, Sequences, FiniteSets, TLC

VARIABLES
    conn,       \* outcome of gradio_client.Client(...): "none", "ok", "failed"
    instance,   \* what the caller of Client(...) got: "none", "bound", "raised"
    clientObj,  \* attributes of the Client instance (name -> value)
    tcObj,      \* attributes of the TextCompletion instance (name -> value)
    calls,      \* calls of create / create_async issued so far, in issue order
    jobs,       \* jobs submitted to the transport, in submit order
    heap        \* list objects allocated by the calls

vars == <<conn, instance, clientObj, tcObj, calls, jobs, heap>>

\* ---------------------------------------------------------------- bounds
\* Number of calls issued on the Client in the concurrent specification.
MaxCalls == 2
\* Number of optional keyword parameters one call supplies (SpecArgs).
MaxSupplied == 2

\* ---------------------------------------------------------- enumerations
PromptType ==
    [ DAI_FAQ |-> "dai_faq", HUMAN_BOT |-> "human_bot",
      HUMAN_BOT_ORIGINAL |-> "human_bot_orig", INSTRUCT |-> "instruct",
      INSTRUCT_SIMPLE |-> "instruct_simple",
      INSTRUCT_VICUNA |-> "instruct_vicuna",
      INSTRUCT_WITH_END |-> "instruct_with_end",
      OPEN_ASSISTANT |-> "open_assistant", PLAIN |-> "plain",
      PROMPT_ANSWER |-> "prompt_answer", QUALITY |-> "quality",
      SIMPLE_INSTRUCT |-> "simple_instruct", SUMMARIZE |-> "summarize",
      WIZARD_LM |-> "wizard_lm", WIZARD_MEGA |-> "wizard_mega" ]

LangChainMode ==
    [ ALL |-> "All", CHAT_LLM |-> "ChatLLM", DISABLED |-> "Disabled",
      GITHUB_H2OGPT |-> "github h2oGPT", H2O_DAI_DOCS |-> "DriverlessAI docs",
      LLM |-> "LLM", MY_DATA |-> "MyData", USER_DATA |-> "UserData",
      WIKI |-> "wiki", WIKI_FULL |-> "wiki_full" ]

Member(cls, name) == [cls |-> cls, name |-> name]
Str(s) == [cls |-> "str", name |-> s]

IsPromptType(o) == o.cls = "PromptType" /\ o.name \in DOMAIN PromptType
IsLangChainMode(o) == o.cls = "LangChainMode" /\ o.name \in DOMAIN LangChainMode

\* `o.value`: defined on the members of both Enum classes, and on nothing else
\* (a str has no attribute `value`: AttributeError).
HasValue(o) == IsPromptType(o) \/ IsLangChainMode(o)
Value(o) == IF o.cls = "PromptType" THEN PromptType[o.name]
                                    ELSE LangChainMode[o.name]

\* ------------------------------------------------------------- signature
OptNames ==
    { "prompt_type", "input_context_for_instruction", "enable_sampler",
      "temperature", "top_p", "top_k", "beams", "early_stopping",
      "min_output_length", "max_output_length", "max_time",
      "repetition_penalty", "number_returns", "system_pre_context",
      "langchain_mode" }
ParamNames == OptNames \cup {"prompt"}

\* The defaults of the signature of create (the same in create_async).
Default(n) ==
    CASE n = "prompt_type" -> Member("PromptType", "PLAIN")
      [] n = "input_context_for_instruction" -> ""
      [] n = "enable_sampler" -> FALSE
      [] n = "temperature" -> 100
      [] n = "top_p" -> 100
      [] n = "top_k" -> 40
      [] n = "beams" -> 100
      [] n = "early_stopping" -> FALSE
      [] n = "min_output_length" -> 0
      [] n = "max_output_length" -> 128
      [] n = "max_time" -> 180
      [] n = "repetition_penalty" -> 107
      [] n = "number_returns" -> 1
      [] n = "system_pre_context" -> ""
      [] n = "langchain_mode" -> Member("LangChainMode", "DISABLED")

\* Binding of the keyword arguments kw (a function from the supplied names to
\* their values, "prompt" always among them) to the parameters.
Bind(kw) == [n \in ParamNames |-> IF n \in DOMAIN kw THEN kw[n] ELSE Default(n)]

\* The keyword arguments the calls are drawn from: "prompt" and a set S of
\* optional parameters, each with one of its candidate values.
Prompts == {"Hello", ""}
Candidates(n) ==
    CASE n = "prompt_type" -> << Member("PromptType", "INSTRUCT"),
                                 Member("LangChainMode", "ALL"),
                                 Str("instruct") >>
      [] n = "input_context_for_instruction" -> << "ctx" >>
      [] n = "enable_sampler" -> << TRUE >>
      [] n = "temperature" -> << 50 >>
      [] n = "top_p" -> << 150 >>
      [] n = "top_k" -> << -1 >>
      [] n = "beams" -> << 200 >>
      [] n = "early_stopping" -> << TRUE >>
      [] n = "min_output_length" -> << 200 >>
      [] n = "max_output_length" -> << 64 >>
      [] n = "max_time" -> << 60 >>
      [] n = "repetition_penalty" -> << 120 >>
      [] n = "number_returns" -> << 2 >>
      [] n = "system_pre_context" -> << "sys" >>
      [] n = "langchain_mode" -> << Member("LangChainMode", "ALL"),
                                    Member("PromptType", "PLAIN"),
                                    Str("All") >>
IdxSet(S) == {i \in [S -> 1..3] : \A n \in S : i[n] <= Len(Candidates(n))}
MkKw(pr, S, idx) ==
    [n \in S \cup {"prompt"} |-> IF n = "prompt" THEN pr ELSE Candidates(n)[idx[n]]]
KwargsSupplying(names, k) ==
    UNION { {MkKw(pr, S, idx) : pr \in Prompts, idx \in IdxSet(S)} :
            S \in {T \in SUBSET names : Cardinality(T) <= k} }
AllKwargs == KwargsSupplying(OptNames, MaxSupplied)
ConcKwargs == {kw \in KwargsSupplying({"prompt_type"}, 1) : kw["prompt"] = "Hello"}

\* ---------------------------------------------------------------- values
None == [tag |-> "none", v |-> ""]
Text(s) == [tag |-> "text", v |-> s]
Error(e) == [tag |-> "error", v |-> e]
\* What the remote endpoint may answer to one job.
Responses == {Text("text A"), Text("text B"), Error("RemoteError")}

Handle == "gradio_client.Client"
ClientRef == "Client"
TcRef == "TextCompletion"
NoAttrs == [a \in {} |-> ""]

\* ------------------------------------------------- the positional lists
CreateApiName == "/submit_nochat"
CreateAsyncApiName_Chat == "/submit"
CreateAsyncApiName == "/submit_nochat"

\* Evaluation of the list literal ["All"]: a fresh list object on each call.
AllocList_Shared(h) == 1
AllocList(h) == Len(h) + 1

CreateArgs_MinMaxSwapped(p, doc) ==
    << "", "", p["system_pre_context"], FALSE, Value(p["prompt_type"]), "",
       p["temperature"], p["top_p"], p["top_k"], p["beams"],
       p["min_output_length"], p["max_output_length"], p["early_stopping"],
       p["max_time"], p["repetition_penalty"], p["number_returns"],
       p["enable_sampler"], FALSE, p["prompt"],
       p["input_context_for_instruction"], Value(p["langchain_mode"]),
       4, TRUE, 512, doc >>

CreateArgs_TopKAsDocs(p, doc) ==
    << "", "", p["system_pre_context"], FALSE, Value(p["prompt_type"]), "",
       p["temperature"], p["top_p"], p["top_k"], p["beams"],
       p["max_output_length"], p["min_output_length"], p["early_stopping"],
       p["max_time"], p["repetition_penalty"], p["number_returns"],
       p["enable_sampler"], FALSE, p["prompt"],
       p["input_context_for_instruction"], Value(p["langchain_mode"]),
       p["top_k"], TRUE, 512, doc >>

\* The positional arguments create passes to Client._predict.
CreateArgs(p, doc) ==
    LET instruction == ""
        input == ""
        stream_output == FALSE
        prompt_dict == ""
        chat_mode == FALSE
        langchain_top_k_docs == 4
        langchain_enable_chunk == TRUE
        langchain_chunk_size == 512
        langchain_document_choice == doc
    IN  << instruction,
           input,
           p["system_pre_context"],
           stream_output,
           Value(p["prompt_type"]),
           prompt_dict,
           p["temperature"],
           p["top_p"],
           p["top_k"],
           p["beams"],
           p["max_output_length"],
           p["min_output_length"],
           p["early_stopping"],
           p["max_time"],
           p["repetition_penalty"],
           p["number_returns"],
           p["enable_sampler"],
           chat_mode,
           p["prompt"],
           p["input_context_for_instruction"],
           Value(p["langchain_mode"]),
           langchain_top_k_docs,
           langchain_enable_chunk,
           langchain_chunk_size,
           langchain_document_choice >>

CreateAsyncArgs_NoDocChoice(p, doc) ==
    << "", "", p["system_pre_context"], FALSE, Value(p["prompt_type"]), "",
       p["temperature"], p["top_p"], p["top_k"], p["beams"],
       p["max_output_length"], p["min_output_length"], p["early_stopping"],
       p["max_time"], p["repetition_penalty"], p["number_returns"],
       p["enable_sampler"], FALSE, p["prompt"],
       p["input_context_for_instruction"], Value(p["langchain_mode"]),
       4, TRUE, 512 >>

\* The positional arguments create_async passes to Client._predict_async.
CreateAsyncArgs(p, doc) ==
    LET instruction == ""
        input == ""
        stream_output == FALSE
        prompt_dict == ""
        chat_mode == FALSE
        langchain_top_k_docs == 4
        langchain_enable_chunk == TRUE
        langchain_chunk_size == 512
        langchain_document_choice == doc
    IN  << instruction,
           input,
           p["system_pre_context"],
           stream_output,
           Value(p["prompt_type"]),
           prompt_dict,
           p["temperature"],
           p["top_p"],
           p["top_k"],
           p["beams"],
           p["max_output_length"],
           p["min_output_length"],
           p["early_stopping"],
           p["max_time"],
           p["repetition_penalty"],
           p["number_returns"],
           p["enable_sampler"],
           chat_mode,
           p["prompt"],
           p["input_context_for_instruction"],
           Value(p["langchain_mode"]),
           langchain_top_k_docs,
           langchain_enable_chunk,
           langchain_chunk_size,
           langchain_document_choice >>

\* ------------------------------------------------------------------ state
Init ==
    /\ conn = "none"
    /\ instance = "none"
    /\ clientObj = NoAttrs
    /\ tcObj = NoAttrs
    /\ calls = << >>
    /\ jobs = << >>
    /\ heap = << >>

Bound == instance = "bound"
Waiting(c) == calls[c].pc = "waiting"
JobsOf(c) == {j \in DOMAIN jobs : jobs[j].owner = c}

\* Client.__init__ that swallows the transport's error and keeps the instance.
ClientInit_Deferred(ok) ==
    /\ instance = "none"
    /\ conn' = IF ok THEN "ok" ELSE "failed"
    /\ clientObj' = [a \in {"_client", "_text_completion"} |->
                        IF a = "_client" THEN (IF ok THEN Handle ELSE "None")
                                         ELSE TcRef]
    /\ tcObj' = [a \in {"_client"} |-> ClientRef]
    /\ instance' = "bound"
    /\ UNCHANGED <<calls, jobs, heap>>

\* Client.__init__: gradio_client.Client(...) returns the handle (ok) or raises;
\* a raise leaves __init__ before any attribute is set and no instance is bound.
ClientInit(ok) ==
    /\ instance = "none"
    /\ IF ok
       THEN /\ conn' = "ok"
            /\ clientObj' = [a \in {"_client", "_text_completion"} |->
                                IF a = "_client" THEN Handle ELSE TcRef]
            /\ tcObj' = [a \in {"_client"} |-> ClientRef]
            /\ instance' = "bound"
       ELSE /\ conn' = "failed"
            /\ instance' = "raised"
            /\ UNCHANGED <<clientObj, tcObj>>
    /\ UNCHANGED <<calls, jobs, heap>>

\* Client.submit of the transport, as _predict and _predict_async call it: one
\* more job, owned by call c, on the handle the Client holds.
Submit(c, args, api) ==
    Append(jobs, [owner |-> c, handle |-> clientObj["_client"],
                  args |-> args, api |-> api, outcome |-> None])

\* The list literal ["All"] of a call: the contents of the list it evaluates to.
DocChoice ==
    LET ref == AllocList(heap)
    IN  IF ref > Len(heap) THEN <<"All">> ELSE heap[ref]

\* One call of `kind` with keyword arguments kw, up to the point where it
\* blocks in .result() / suspends in await: the list literal, the argument
\* expressions in order (a .value that does not exist raises AttributeError
\* before _predict is entered), then the submit of args to api.
Issue(kind, kw, args, api) ==
    LET c == Len(calls) + 1
        p == Bind(kw)
        ref == AllocList(heap)
    IN  /\ Bound
        /\ Len(calls) < MaxCalls
        /\ heap' = IF ref > Len(heap) THEN Append(heap, DocChoice) ELSE heap
        /\ IF HasValue(p["prompt_type"]) /\ HasValue(p["langchain_mode"])
           THEN /\ jobs' = Submit(c, args, api)
                /\ calls' = Append(calls,
                       [kind |-> kind, kwargs |-> kw, pc |-> "waiting",
                        doc |-> ref, job |-> Len(jobs) + 1, result |-> None])
           ELSE /\ jobs' = jobs
                /\ calls' = Append(calls,
                       [kind |-> kind, kwargs |-> kw, pc |-> "raised",
                        doc |-> ref, job |-> 0,
                        result |-> Error("AttributeError")])
        /\ UNCHANGED <<conn, instance, clientObj, tcObj>>

\* TextCompletion.create, up to the blocking .result().
create(kw) ==
    Issue("create", kw, CreateArgs(Bind(kw), DocChoice), CreateApiName)

\* TextCompletion.create_async, up to the await.
create_async(kw) ==
    Issue("create_async", kw, CreateAsyncArgs(Bind(kw), DocChoice),
          CreateAsyncApiName)

\* The transport and the remote endpoint complete job j with response r.
JobResolve(j, r) ==
    /\ j \in DOMAIN jobs
    /\ jobs[j].outcome = None
    /\ jobs' = [jobs EXCEPT ![j].outcome = r]
    /\ UNCHANGED <<conn, instance, clientObj, tcObj, calls, heap>>

\* What a finished job gives the waiting caller: its text, or its exception.
Deliver(c, r) ==
    calls' = [calls EXCEPT ![c].pc = IF r.tag = "text" THEN "returned" ELSE "raised",
                           ![c].result = r]

\* _predict that submits the same arguments once more when the job failed.
PredictResult_Retry(c) ==
    /\ c \in DOMAIN calls
    /\ calls[c].kind = "create"
    /\ Waiting(c)
    /\ jobs[calls[c].job].outcome # None
    /\ LET j == calls[c].job
           r == jobs[j].outcome
       IN  IF r.tag = "error" /\ Cardinality(JobsOf(c)) = 1
           THEN /\ jobs' = Submit(c, jobs[j].args, jobs[j].api)
                /\ calls' = [calls EXCEPT ![c].job = Len(jobs) + 1]
           ELSE /\ Deliver(c, r)
                /\ jobs' = jobs
    /\ UNCHANGED <<conn, instance, clientObj, tcObj, heap>>

\* Client._predict: .result() of the job returns its text or raises its error.
PredictResult(c) ==
    /\ c \in DOMAIN calls
    /\ calls[c].kind = "create"
    /\ Waiting(c)
    /\ jobs[calls[c].job].outcome # None
    /\ Deliver(c, jobs[calls[c].job].outcome)
    /\ UNCHANGED <<conn, instance, clientObj, tcObj, jobs, heap>>

\* _predict_async that turns a failed job into an empty text.
PredictAsyncResult_Swallow(c) ==
    /\ c \in DOMAIN calls
    /\ calls[c].kind = "create_async"
    /\ Waiting(c)
    /\ jobs[calls[c].job].outcome # None
    /\ LET r == jobs[calls[c].job].outcome
       IN  Deliver(c, IF r.tag = "error" THEN Text("") ELSE r)
    /\ UNCHANGED <<conn, instance, clientObj, tcObj, jobs, heap>>

\* Client._predict_async: the await of the wrapped future resumes with the
\* job's text or raises its error.
PredictAsyncResult(c) ==
    /\ c \in DOMAIN calls
    /\ calls[c].kind = "create_async"
    /\ Waiting(c)
    /\ jobs[calls[c].job].outcome # None
    /\ Deliver(c, jobs[calls[c].job].outcome)
    /\ UNCHANGED <<conn, instance, clientObj, tcObj, jobs, heap>>

\* A cancellation handler that closes the transport handle of the Client.
CancelAwait_Close(c) ==
    /\ c \in DOMAIN calls
    /\ calls[c].kind = "create_async"
    /\ Waiting(c)
    /\ calls' = [calls EXCEPT ![c].pc = "cancelled",
                              ![c].result = Error("CancelledError")]
    /\ clientObj' = [clientObj EXCEPT !["_client"] = "closed"]
    /\ UNCHANGED <<conn, instance, tcObj, jobs, heap>>

\* The task awaiting create_async is cancelled: CancelledError is raised at the
\* await of _predict_async, which has no handler; the job is left to the
\* transport.
CancelAwait(c) ==
    /\ c \in DOMAIN calls
    /\ calls[c].kind = "create_async"
    /\ Waiting(c)
    /\ calls' = [calls EXCEPT ![c].pc = "cancelled",
                              ![c].result = Error("CancelledError")]
    /\ UNCHANGED <<conn, instance, clientObj, tcObj, jobs, heap>>

\* ---------------------------------------------------------- specifications
\* Concurrent use: up to MaxCalls calls outstanding on one Client.
Next ==
    \/ \E ok \in BOOLEAN : ClientInit(ok)
    \/ \E kw \in ConcKwargs : create(kw)
    \/ \E kw \in ConcKwargs : create_async(kw)
    \/ \E j \in DOMAIN jobs, r \in Responses : JobResolve(j, r)
    \/ \E c \in DOMAIN calls : PredictResult(c)
    \/ \E c \in DOMAIN calls : PredictAsyncResult(c)
    \/ \E c \in DOMAIN calls : CancelAwait(c)

Spec == Init /\ [][Next]_vars

\* The argument lists over the whole parameter space: a first call with any
\* keyword arguments, then, once it has returned or raised, the other variant
\* with the same keyword arguments.
TwinKwargs(kind) ==
    IF calls = << >> THEN AllKwargs
    ELSE IF Len(calls) = 1 /\ calls[1].kind # kind
            /\ calls[1].pc \in {"returned", "raised"}
         THEN {calls[1].kwargs}
         ELSE {}

NextArgs ==
    \/ \E ok \in BOOLEAN : ClientInit(ok)
    \/ \E kw \in TwinKwargs("create") : create(kw)
    \/ \E kw \in TwinKwargs("create_async") : create_async(kw)
    \/ \E j \in DOMAIN jobs, r \in Responses : JobResolve(j, r)
    \/ \E c \in DOMAIN calls : PredictResult(c)
    \/ \E c \in DOMAIN calls : PredictAsyncResult(c)
    \/ \E c \in DOMAIN calls : CancelAwait(c)

SpecArgs == Init /\ [][NextArgs]_vars

\* ------------------------------------------------------------------ claims
Submitted(c) == calls[c].job # 0
ArgsOf(c) == jobs[calls[c].job].args
Finished(c) == calls[c].pc \in {"returned", "raised"}
\* The value the caller of call c gave for parameter n, d when it gave none.
Given(c, n, d) ==
    IF n \in DOMAIN calls[c].kwargs THEN calls[c].kwargs[n] ELSE d
Creates == {c \in DOMAIN calls : calls[c].kind = "create"}
Asyncs == {c \in DOMAIN calls : calls[c].kind = "create_async"}

\* C1 as stated: every list forwarded by create or create_async has exactly
\* 24 positional values.
C1_Exactly24 == \A j \in DOMAIN jobs : Len(jobs[j].args) = 24

\* C1 as amended: every list forwarded by create or create_async has exactly
\* 25 positional values (the 25 names of the documented order).
C1_Exactly25 == \A j \in DOMAIN jobs : Len(jobs[j].args) = 25

C1_Witness ==
    \E c \in Creates, d \in Asyncs :
        /\ Submitted(c) /\ Submitted(d)
        /\ Cardinality(DOMAIN calls[c].kwargs) = 3

\* C2: the list create forwards holds, in the documented order, the hidden
\* constants and every caller-supplied value exactly as supplied (a PromptType
\* or LangChainMode member as its string tag), the documented default where the
\* caller supplied none, with nothing validated or rewritten.
C2_CreateOrderPassThrough ==
    \A c \in Creates : Submitted(c) =>
        LET a == ArgsOf(c)
            pt == Given(c, "prompt_type", Member("PromptType", "PLAIN"))
            lm == Given(c, "langchain_mode", Member("LangChainMode", "DISABLED"))
        IN  /\ Len(a) = 25
            /\ a[1] = "" /\ a[2] = ""
            /\ a[3] = Given(c, "system_pre_context", "")
            /\ a[4] = FALSE
            /\ IsPromptType(pt) => a[5] = PromptType[pt.name]
            /\ "prompt_type" \notin DOMAIN calls[c].kwargs => a[5] = "plain"
            /\ a[6] = ""
            /\ a[7] = Given(c, "temperature", 100)
            /\ a[8] = Given(c, "top_p", 100)
            /\ a[9] = Given(c, "top_k", 40)
            /\ a[10] = Given(c, "beams", 100)
            /\ a[11] = Given(c, "max_output_length", 128)
            /\ a[12] = Given(c, "min_output_length", 0)
            /\ a[13] = Given(c, "early_stopping", FALSE)
            /\ a[14] = Given(c, "max_time", 180)
            /\ a[15] = Given(c, "repetition_penalty", 107)
            /\ a[16] = Given(c, "number_returns", 1)
            /\ a[17] = Given(c, "enable_sampler", FALSE)
            /\ a[18] = FALSE
            /\ a[19] = calls[c].kwargs["prompt"]
            /\ a[20] = Given(c, "input_context_for_instruction", "")
            /\ IsLangChainMode(lm) => a[21] = LangChainMode[lm.name]
            /\ "langchain_mode" \notin DOMAIN calls[c].kwargs => a[21] = "Disabled"
            /\ a[22] = 4 /\ a[23] = TRUE /\ a[24] = 512
            /\ a[25] = <<"All">>

\* create(prompt="Hello", prompt_type=INSTRUCT, temperature=0.5) has forwarded
\* the list of the documented example.
C2_Witness ==
    \E c \in Creates :
        /\ Submitted(c)
        /\ DOMAIN calls[c].kwargs = {"prompt", "prompt_type", "temperature"}
        /\ calls[c].kwargs["prompt"] = "Hello"
        /\ calls[c].kwargs["prompt_type"] = Member("PromptType", "INSTRUCT")
        /\ calls[c].kwargs["temperature"] = 50
        /\ ArgsOf(c) = << "", "", "", FALSE, "instruct", "", 50, 100, 40, 100,
                          128, 0, FALSE, 180, 107, 1, FALSE, FALSE, "Hello",
                          "", "Disabled", 4, TRUE, 512, <<"All">> >>

\* C3: in every list forwarded by create or create_async the hidden fields
\* are constant: instruction, input and promptDict empty, streamOutput and
\* chatMode false, 4 document chunks, chunking on, chunk size 512, document
\* choice ["All"].
C3_HiddenFieldsConstant ==
    \A j \in DOMAIN jobs :
        LET a == jobs[j].args
        IN  /\ a[1] = "" /\ a[2] = "" /\ a[4] = FALSE /\ a[6] = ""
            /\ a[18] = FALSE /\ a[22] = 4 /\ a[23] = TRUE /\ a[24] = 512
            /\ a[Len(a)] = <<"All">>

C3_Witness ==
    \E c \in Asyncs :
        /\ Submitted(c)
        /\ DOMAIN calls[c].kwargs = {"prompt", "enable_sampler", "top_k"}
        /\ ArgsOf(c)[17] = TRUE

\* C4: create and create_async given the same keyword arguments either both
\* raise before any submit or submit the same list to the same endpoint
\* "/submit_nochat", and for the same remote response end the same way.
C4_VariantsAgree ==
    \A c \in Creates, d \in Asyncs :
        calls[c].kwargs = calls[d].kwargs =>
            /\ Submitted(c) <=> Submitted(d)
            /\ Submitted(c) /\ Submitted(d) =>
                 /\ ArgsOf(c) = ArgsOf(d)
                 /\ jobs[calls[c].job].api = "/submit_nochat"
                 /\ jobs[calls[d].job].api = "/submit_nochat"
                 /\ ( /\ Finished(c) /\ Finished(d)
                      /\ jobs[calls[c].job].outcome = jobs[calls[d].job].outcome )
                    => /\ calls[c].pc = calls[d].pc
                       /\ calls[c].result = calls[d].result

C4_Witness ==
    \E c \in Creates, d \in Asyncs :
        /\ Cardinality(DOMAIN calls[c].kwargs) = 3
        /\ calls[c].pc = "returned" /\ calls[d].pc = "returned"
        /\ calls[c].result = Text("text A") /\ calls[d].result = Text("text A")

\* C5 as stated: a call whose prompt_type is no member of PromptType, or whose
\* langchain_mode is no member of LangChainMode, fails and submits nothing.
C5_InvalidEnumRejected ==
    \A c \in DOMAIN calls :
        LET p == Bind(calls[c].kwargs)
        IN  (~IsPromptType(p["prompt_type"]) \/ ~IsLangChainMode(p["langchain_mode"]))
            => /\ calls[c].pc = "raised"
               /\ calls[c].result.tag = "error"
               /\ JobsOf(c) = {}

\* C6: every call whose argument expressions evaluate has exactly one job at
\* the transport, whether the job succeeds or fails, a call that raised before
\* the submit has none, and the Client and the TextCompletion hold the
\* attributes construction gave them and no other.
C6_OneSubmitNoState ==
    /\ \A c \in DOMAIN calls :
          LET p == Bind(calls[c].kwargs)
          IN  Cardinality(JobsOf(c)) =
                 IF HasValue(p["prompt_type"]) /\ HasValue(p["langchain_mode"])
                 THEN 1 ELSE 0
    /\ Len(jobs) <= Len(calls)
    /\ Bound => /\ DOMAIN clientObj = {"_client", "_text_completion"}
                /\ DOMAIN tcObj = {"_client"}
                /\ clientObj["_client"] = Handle
                /\ clientObj["_text_completion"] = TcRef
                /\ tcObj["_client"] = ClientRef

C6_Witness ==
    \E c \in Creates, d \in DOMAIN calls :
        /\ calls[c].pc = "raised" /\ calls[c].result = Error("RemoteError")
        /\ calls[d].pc = "returned"
        /\ Cardinality(JobsOf(c)) = 1 /\ Cardinality(JobsOf(d)) = 1

\* C7: a call that has ended after its submit ended with exactly what its one
\* job ended with: the remote text, returned as it is, or the job's failure,
\* raised; never a text in place of a failure and never a second job.
C7_FailureSurfaced ==
    \A c \in DOMAIN calls : (Submitted(c) /\ Finished(c)) =>
        LET r == jobs[calls[c].job].outcome
        IN  /\ calls[c].result = r
            /\ r \in Responses
            /\ r.tag = "error" <=> calls[c].pc = "raised"
            /\ r.tag = "text" <=> calls[c].pc = "returned"
            /\ JobsOf(c) = {calls[c].job}

C7_Witness ==
    \E c \in Asyncs, d \in Creates :
        /\ calls[c].pc = "raised" /\ calls[c].result = Error("RemoteError")
        /\ calls[d].pc = "raised" /\ calls[d].result = Error("RemoteError")

\* C8: when the transport handle cannot be established the construction of
\* the Client raises and binds no instance, so every call and every job is on
\* a Client whose handle was established.
C8_ConstructionFailsAtOnce ==
    /\ conn = "failed" => (instance = "raised" /\ calls = << >> /\ jobs = << >>)
    /\ Bound => (conn = "ok" /\ clientObj["_client"] = Handle)
    /\ calls # << >> => conn = "ok"
    /\ \A j \in DOMAIN jobs : jobs[j].handle = Handle

C8_Witness ==
    /\ conn = "failed" /\ instance = "raised"
    /\ clientObj = NoAttrs /\ calls = << >>

\* C9: whatever the interleaving, a call's job carries the list built from
\* its own keyword arguments, a call that ended got its own job's outcome, no
\* two calls share their document-choice list, and the Client's references to
\* the transport handle and to the TextCompletion are those of construction.
C9_CallsIndependent ==
    /\ \A c \in DOMAIN calls, d \in DOMAIN calls :
          /\ c # d => calls[c].doc # calls[d].doc
          /\ (Submitted(c) /\ Submitted(d)) =>
                /\ c # d => calls[c].job # calls[d].job
                /\ calls[c].kwargs = calls[d].kwargs => ArgsOf(c) = ArgsOf(d)
    /\ \A c \in DOMAIN calls : Submitted(c) =>
          /\ jobs[calls[c].job].owner = c
          /\ ArgsOf(c)[5] = Value(Given(c, "prompt_type", Member("PromptType", "PLAIN")))
          /\ Finished(c) => calls[c].result = jobs[calls[c].job].outcome
    /\ Bound => (clientObj["_client"] = Handle /\ clientObj["_text_completion"] = TcRef)

\* Two calls outstanding together, the later one completed first, each with
\* its own text.
C9_Witness ==
    \E c \in DOMAIN calls, d \in DOMAIN calls :
        /\ c < d /\ calls[c].kind # calls[d].kind
        /\ calls[c].kwargs # calls[d].kwargs
        /\ Waiting(c) /\ jobs[calls[c].job].outcome = Text("text A")
        /\ calls[d].pc = "returned" /\ calls[d].result = Text("text B")

\* C10: a cancelled create_async stays cancelled and never gets a result,
\* and with a call cancelled the Client still holds its transport handle,
\* every job is on that handle, and every other call that ends gets its own
\* job's outcome.
C10_CancelStep ==
    /\ \A c \in DOMAIN calls : calls[c].pc = "cancelled" =>
          /\ calls'[c].pc = "cancelled"
          /\ calls'[c].result = Error("CancelledError")
    /\ (\E c \in DOMAIN calls' : calls'[c].pc = "cancelled") =>
          /\ clientObj'["_client"] = Handle
          /\ \A j \in DOMAIN jobs' : jobs'[j].handle = Handle
          /\ \A d \in DOMAIN calls' :
                (calls'[d].job # 0 /\ calls'[d].pc \in {"returned", "raised"}) =>
                    calls'[d].result = jobs'[calls'[d].job].outcome
C10_CancelAbandonsWait == [][C10_CancelStep]_vars

\* A call was cancelled while its job was outstanding, and a later call has
\* returned its text.
C10_Witness ==
    \E c \in Asyncs, d \in DOMAIN calls :
        /\ c < d
        /\ calls[c].pc = "cancelled" /\ jobs[calls[c].job].outcome = None
        /\ calls[d].pc = "returned" /\ calls[d].result \in Responses

====
